---- MODULE Spec2Model ----
(***************************************************************************)
(* Stream orchestration core of the YouTube livestreaming server:          *)
(* StreamManager (server/services/StreamManager.js) and PlaylistManager    *)
(* (server/services/PlaylistManager.js, latest revision), together with    *)
(* the encode processes they spawn and the timers they schedule.           *)
(*                                                                         *)
(* The Node.js event loop runs one callback at a time; an action of this   *)
(* module is one callback (an API call, a process lifecycle event or a     *)
(* timer) together with all the promise continuations that run before the  *)
(* next callback.  Time is counted in seconds.                             *)
(***************************************************************************)
EXTENDS Integers, Sequences, FiniteSets, Bags, TLC

(***************************************************************************)
(* Bounds of the model                                                     *)
(***************************************************************************)
\* size of the largest playlist in the database
MaxItems == 3
\* encode process records that may exist at once
MaxProcs == 2
\* startStream invocations that may be suspended at once
MaxTasks == 2
\* delayed callbacks that may be pending at once
MaxTimers == 2
\* cap of the cumulative error counter
MaxErrors == 3
\* cap of the uptime counter, in seconds
MaxUptime == 2
\* requests the control surface may issue in one behaviour
MaxCalls == 3

(***************************************************************************)
(* Program constants                                                       *)
(***************************************************************************)
MinKeyLen == 10
MinBitrate == 500
MaxBitrate == 10000
AutoRestartDelay == 5
SettleDelay == 2
AdvanceDelay == 1
RetryDelay == 2

Qualities == {"720p", "1080p"}
FrameRates == {24, 30, 60}

(***************************************************************************)
(* Stream configurations.  A stream key is modelled by its length and by   *)
(* whether it consists of white space only.                                *)
(***************************************************************************)
NoConfig == [streamType |-> "none"]

GoodKey == [len |-> 14, blank |-> FALSE]

SingleBase ==
  [streamType |-> "single", key |-> GoodKey, source |-> "url", playlistId |-> 0,
   shuffle |-> FALSE, loop |-> TRUE, quality |-> "720p", bitrate |-> 2500,
   fps |-> 30, autoRestart |-> FALSE]

PlaylistBase ==
  [streamType |-> "playlist", key |-> GoodKey, source |-> "none", playlistId |-> 1,
   shuffle |-> FALSE, loop |-> TRUE, quality |-> "1080p", bitrate |-> 10000,
   fps |-> 60, autoRestart |-> FALSE]

\* configurations validateConfig accepts, single mode
ValidSingleConfigs ==
  { SingleBase,
    [SingleBase EXCEPT !.autoRestart = TRUE],
    [SingleBase EXCEPT !.source = "file", !.quality = "1080p", !.bitrate = 500,
                       !.fps = 24, !.autoRestart = TRUE] }

\* configurations with one defect each
DefectConfigs ==
  { [SingleBase EXCEPT !.key = [len |-> 0, blank |-> FALSE]],
    [SingleBase EXCEPT !.key = [len |-> 12, blank |-> TRUE]],
    [SingleBase EXCEPT !.key = [len |-> 9, blank |-> FALSE]],
    [SingleBase EXCEPT !.key = [len |-> 10, blank |-> FALSE]],
    [SingleBase EXCEPT !.source = "none"],
    [SingleBase EXCEPT !.quality = "480p"],
    [SingleBase EXCEPT !.bitrate = 499],
    [SingleBase EXCEPT !.bitrate = 10001],
    [SingleBase EXCEPT !.fps = 25] }

(***************************************************************************)
(* The playlist database (Database.getPlaylist).  An audio item is         *)
(* modelled by the state of its audio asset: "ok" or "none" (no asset).    *)
(***************************************************************************)
AllOk(n) == [i \in 1..n |-> "ok"]

\* playlists 1..MaxItems are complete and have 1..MaxItems items; the four
\* after them are incomplete
DB ==
  [n \in 1..MaxItems |-> [items |-> AllOk(n), bg |-> "ok"]]
  \o << [items |-> << >>, bg |-> "ok"],
        [items |-> AllOk(1), bg |-> "null"],
        [items |-> <<"none", "ok">>, bg |-> "ok"],
        [items |-> <<"ok", "none">>, bg |-> "ok"] >>

IncompleteIds == (MaxItems + 1)..(MaxItems + 4)

\* an identifier no playlist of the database has
MissingPlaylistId == Len(DB) + 1

getPlaylist(id) == IF id \in DOMAIN DB THEN id ELSE 0

PlaylistConfigs ==
  { [PlaylistBase EXCEPT !.playlistId = 2, !.loop = FALSE],
    [PlaylistBase EXCEPT !.playlistId = 2, !.shuffle = TRUE] }
  \cup { [PlaylistBase EXCEPT !.playlistId = id] :
           id \in {0, MissingPlaylistId} \cup IncompleteIds }

SingleConfigs == ValidSingleConfigs \cup DefectConfigs

Configs == SingleConfigs \cup PlaylistConfigs

(***************************************************************************)
(* StreamManager.validateConfig: the error it throws, or "ok".             *)
(***************************************************************************)
validateConfig(config) ==
  IF config = NoConfig THEN "config required"
  ELSE IF config.key.len = 0 \/ config.key.blank THEN "key required"
  ELSE IF config.key.len < MinKeyLen THEN "key invalid"
  ELSE IF config.streamType = "playlist" /\ config.playlistId = 0 THEN "playlist id required"
  ELSE IF config.streamType # "playlist" /\ config.source = "none" THEN "source required"
  ELSE IF config.streamType # "playlist" /\ config.source = "badfile" THEN "file not found"
  ELSE IF config.quality \notin Qualities THEN "invalid quality"
  ELSE IF config.bitrate = 0 \/ config.bitrate < MinBitrate \/ config.bitrate > MaxBitrate
       THEN "invalid bitrate"
  ELSE IF config.fps = 0 \/ config.fps \notin FrameRates THEN "invalid fps"
  ELSE "ok"

ResolutionBroken(quality) == "1280x720"

Resolution(quality) == IF quality = "1080p" THEN "1920x1080" ELSE "1280x720"

(***************************************************************************)
(* PlaylistManager.generatePlayOrder.  rnd[i] is the value of              *)
(* Math.floor(Math.random() * (i + 1)) in the iteration for index i.       *)
(* Play orders hold 0-based item indices, as in the code; position k of    *)
(* the code's array is position k+1 of the sequence.                       *)
(***************************************************************************)
RandomChoices(n) == { r \in [1..(n - 1) -> 0..(n - 1)] : \A i \in 1..(n - 1) : r[i] <= i }

IdentityOrder(n) == [k \in 1..n |-> k - 1]

SwapBroken(order, i, j) == [order EXCEPT ![i + 1] = order[j + 1]]

Swap(order, i, j) == [order EXCEPT ![i + 1] = order[j + 1], ![j + 1] = order[i + 1]]

RECURSIVE FisherYates(_, _, _)
FisherYates(order, i, rnd) ==
  IF i <= 0 THEN order
  ELSE FisherYates(Swap(order, i, rnd[i]), i - 1, rnd)

generatePlayOrder(pm, rnd) ==
  IF pm.currentPlaylist = 0 THEN pm
  ELSE LET n == Len(DB[pm.currentPlaylist].items)
           ident == IdentityOrder(n)
       IN [pm EXCEPT !.playOrder =
             IF pm.shuffleMode THEN FisherYates(ident, n - 1, rnd) ELSE ident]

(***************************************************************************)
(* State                                                                   *)
(***************************************************************************)
VARIABLES
  sm,      \* the fields of the StreamManager
  pm,      \* the fields of its PlaylistManager
  procs,   \* the encode processes (fluent-ffmpeg commands that were run)
  tasks,   \* the suspended startStream invocations
  timers,  \* the pending setTimeout callbacks, a bag of [kind, left]
  out,     \* what the last callback emitted and spawned, in order
  last,    \* the last callback: operation, argument and outcome
  calls,   \* the number of requests issued so far
  hm       \* the fields of the HealthMonitor and the last status it emitted

vars == <<sm, pm, procs, tasks, timers, out, last, calls, hm>>

\* The state as one value; the operations below map a world to a world.
\* res is the outcome of the call being executed; over is set when a bound
\* of the model would be exceeded.
World ==
  [sm |-> sm, pm |-> pm, procs |-> procs, tasks |-> tasks, timers |-> timers,
   out |-> << >>, res |-> "ok", over |-> FALSE]

Emit(w, e) == [w EXCEPT !.out = Append(@, e)]

Result(w, r) == [w EXCEPT !.res = r]

Over(w) == [w EXCEPT !.over = TRUE]

Min(S) == CHOOSE x \in S : \A y \in S : x <= y

IncErrors(w) ==
  IF w.sm.status.errors >= MaxErrors THEN Over(w)
  ELSE [w EXCEPT !.sm.status.errors = @ + 1]

AddTimer(w, kind, delay) ==
  IF BagCardinality(w.timers) >= MaxTimers THEN Over(w)
  ELSE [w EXCEPT !.timers = @ (+) SetToBag({[kind |-> kind, left |-> delay]})]

(***************************************************************************)
(* Encode processes.  A process is "starting" from run() until its 'start' *)
(* event, then "running"; kill() makes it "killed", and it still delivers  *)
(* its terminal event; after the terminal event it is "dead" and its       *)
(* record is dropped once no handle refers to it.  waiter is the           *)
(* startStream invocation (task id) suspended on the process's promise,    *)
(* -1 for a playCurrentItem invocation nobody awaits, 0 once the promise   *)
(* is settled.                                                             *)
(***************************************************************************)
Alive(p) == p.st \in {"starting", "running"}

Spawn(w, kind, waiter, item) ==
  LET free == (1..MaxProcs) \ {p.id : p \in w.procs}
  IN IF free = {} THEN Over(w)
     ELSE LET id == Min(free)
              p == [id |-> id, kind |-> kind, st |-> "starting",
                    waiter |-> waiter, item |-> item]
              w1 == Emit([w EXCEPT !.procs = @ \cup {p}], "spawn")
          IN IF kind = "single" THEN [w1 EXCEPT !.sm.ffmpegProcess = id]
             ELSE [w1 EXCEPT !.pm.ffmpegProcess = id]

kill(w, id) ==
  [w EXCEPT !.procs = { IF p.id = id /\ Alive(p) THEN [p EXCEPT !.st = "killed"] ELSE p :
                        p \in @ }]

\* records of dead processes that no handle refers to are dropped
Collect(w) ==
  [w EXCEPT !.procs = { p \in @ : p.st # "dead"
                                   \/ p.id = w.sm.ffmpegProcess
                                   \/ p.id = w.pm.ffmpegProcess }]

(***************************************************************************)
(* PlaylistManager                                                         *)
(***************************************************************************)
\* the index of the current item in the playlist, -1 when there is none
getCurrentItem(p) ==
  IF p.currentPlaylist = 0 \/ Len(p.playOrder) = 0 THEN -1
  ELSE IF p.currentItemIndex + 1 \notin DOMAIN p.playOrder THEN -1
  ELSE p.playOrder[p.currentItemIndex + 1]

loadPlaylist(w, playlistId, shuffle, loop, rnd) ==
  LET id == getPlaylist(playlistId)
  IN IF id = 0 THEN Result(w, "rejected")
     ELSE LET p1 == [w.pm EXCEPT !.currentPlaylist = id,
                                 !.backgroundVideo = DB[id].bg,
                                 !.shuffleMode = shuffle,
                                 !.loopMode = loop,
                                 !.currentItemIndex = 0]
          IN Result([w EXCEPT !.pm = generatePlayOrder(p1, rnd)], "ok")

\* the error createLofiStream throws before it runs a command, or "ok"
createLofiStreamCheck(p, item) ==
  IF p.backgroundVideo # "ok" THEN "Missing background video"
  ELSE IF DB[p.currentPlaylist].items[item + 1] # "ok" THEN "Missing audio source"
  ELSE "ok"

\* the catch block of playCurrentItem
playCurrentItemCatch(w) ==
  LET w1 == Emit(w, "error")
  IN IF w1.pm.isPlaying THEN AddTimer(w1, "retry", RetryDelay) ELSE w1

playCurrentItemBroken(w, waiter) ==
  LET item == getCurrentItem(w.pm)
  IN IF item = -1 THEN Result(w, "ok")
     ELSE IF w.pm.backgroundVideo = "null" THEN Result(w, "rejected")
     ELSE IF createLofiStreamCheck(w.pm, item) # "ok"
          THEN Result(playCurrentItemCatch(w), "ok")
          ELSE LET total == Len(DB[w.pm.currentPlaylist].items)
                   w1 == [Emit(Spawn(w, "lofi", waiter, item), "itemChanged") EXCEPT
                            !.sm.status.currentPlaylistItem = item,
                            !.sm.status.playlistLength = total]
               IN Result(Emit(Emit(w1, "statusChange"), "playlistUpdate"), "pending")

\* playCurrentItem up to its suspension on createLofiStream's promise:
\* "pending" when a process was run, "ok" when the call returned,
\* "rejected" when it threw
playCurrentItem(w, waiter) ==
  LET item == getCurrentItem(w.pm)
  IN IF item = -1 THEN Result(w, "ok")
     ELSE IF w.pm.backgroundVideo = "null" THEN Result(w, "rejected")
     ELSE
       LET total == Len(DB[w.pm.currentPlaylist].items)
           w1 == [Emit(w, "itemChanged") EXCEPT
                    !.sm.status.currentPlaylistItem = item,
                    !.sm.status.playlistLength = total]
           w2 == Emit(Emit(w1, "statusChange"), "playlistUpdate")
       IN IF createLofiStreamCheck(w2.pm, item) # "ok"
          THEN Result(playCurrentItemCatch(w2), "ok")
          ELSE Result(Spawn(w2, "lofi", waiter, item), "pending")

pmStartPlaylistStream(w, waiter) ==
  IF w.pm.currentPlaylist = 0 THEN Result(w, "rejected")
  ELSE IF w.pm.backgroundVideo = "null" THEN Result(w, "rejected")
  ELSE LET r == playCurrentItem([w EXCEPT !.pm.isPlaying = TRUE], waiter)
       IN r

pmStop(w) ==
  LET w1 == [w EXCEPT !.pm.isPlaying = FALSE]
  IN IF w1.pm.ffmpegProcess # 0
     THEN [kill(w1, w1.pm.ffmpegProcess) EXCEPT !.pm.ffmpegProcess = 0]
     ELSE w1

nextItemStuck(w) ==
  IF ~w.pm.isPlaying THEN w ELSE AddTimer(w, "advance", AdvanceDelay)

nextItemBroken(w) ==
  IF ~w.pm.isPlaying THEN w
  ELSE LET idx == w.pm.currentItemIndex + 1
       IN IF idx >= Len(w.pm.playOrder)
          THEN pmStop([w EXCEPT !.pm.currentItemIndex = idx])
          ELSE AddTimer([w EXCEPT !.pm.currentItemIndex = idx], "advance", AdvanceDelay)

nextItem(w) ==
  IF ~w.pm.isPlaying THEN w
  ELSE LET idx == w.pm.currentItemIndex + 1
       IN IF idx >= Len(w.pm.playOrder)
          THEN IF w.pm.loopMode
               THEN AddTimer([w EXCEPT !.pm.currentItemIndex = 0], "advance", AdvanceDelay)
               ELSE pmStop([w EXCEPT !.pm.currentItemIndex = idx])
          ELSE AddTimer([w EXCEPT !.pm.currentItemIndex = idx], "advance", AdvanceDelay)

previousItem(w) ==
  IF ~w.pm.isPlaying THEN w
  ELSE LET idx == w.pm.currentItemIndex - 1
           w1 == [w EXCEPT !.pm.currentItemIndex =
                             IF idx < 0 THEN Len(w.pm.playOrder) - 1 ELSE idx]
       IN AddTimer(pmStop(w1), "advance", AdvanceDelay)

setShuffleBroken(w, enabled, rnd) ==
  [w EXCEPT !.pm = generatePlayOrder([w.pm EXCEPT !.shuffleMode = enabled,
                                                  !.currentItemIndex = 0], rnd)]

setShuffle(w, enabled, rnd) ==
  [w EXCEPT !.pm = generatePlayOrder([w.pm EXCEPT !.shuffleMode = enabled], rnd)]


(***************************************************************************)
(* StreamManager                                                           *)
(***************************************************************************)
startUptimeTracking(w) ==
  [w EXCEPT !.sm.startTime = 0,
            !.sm.leakedInterval = @ \/ w.sm.uptimeInterval,
            !.sm.uptimeInterval = TRUE]

\* what restartStream does once the startStream it awaits has settled;
\* a direct caller of startStream does nothing more
AfterStart(w, origin, ok) ==
  IF origin # "restart" THEN w
  ELSE IF ok THEN Emit([w EXCEPT !.sm.status.lastRestart = 0], "log")
  ELSE Emit(IncErrors(w), "error")

\* startStream from startUptimeTracking() to its end
startStreamResolve(w, config, origin) ==
  LET w1 == startUptimeTracking(w)
      w2 == [w1 EXCEPT !.sm.isStreaming = TRUE,
                       !.sm.status.isStreaming = TRUE,
                       !.sm.status.health = "good",
                       !.sm.status.bitrate = config.bitrate,
                       !.sm.status.fps = config.fps,
                       !.sm.status.resolution = Resolution(config.quality),
                       !.sm.status.streamType = config.streamType]
  IN AfterStart(Result(Emit(Emit(w2, "statusChange"), "log"), "ok"), origin, TRUE)

startStreamCatchBroken(w, origin) ==
  AfterStart(Result(Emit(AddTimer(IncErrors(w), "autoRestart", AutoRestartDelay), "error"),
                    "rejected"),
             origin, FALSE)

\* the catch block of startStream
startStreamCatch(w, origin) ==
  AfterStart(Result(Emit(IncErrors(w), "error"), "rejected"), origin, FALSE)

\* startStream when FFmpeg is not available
startStreamNoFFmpeg(w, origin) ==
  AfterStart(Result(Emit(w, "error"), "rejected"), origin, FALSE)

smStartPlaylistStream(w, tid, rnd) ==
  LET c == w.sm.config
      w1 == loadPlaylist(w, c.playlistId, c.shuffle, c.loop, rnd)
  IN IF w1.res = "rejected" THEN w1 ELSE pmStartPlaylistStream(w1, tid)

initializeStream(w, tid) ==
  IF w.sm.config.source \notin {"url", "file"} THEN Result(w, "rejected")
  ELSE Result(Spawn(w, "single", tid, 0), "pending")

\* startStream from "this.config = config" to its suspension on the pipeline
startStreamBody(w, config, origin, rnd) ==
  LET free == (1..MaxTasks) \ {t.id : t \in w.tasks}
      tid == IF free = {} THEN 0 ELSE Min(free)
      w1 == [w EXCEPT !.sm.config = config]
  IN IF validateConfig(config) # "ok" THEN startStreamCatch(w1, origin)
     ELSE LET w2 == IF config.streamType = "playlist"
                    THEN smStartPlaylistStream(w1, tid, rnd)
                    ELSE initializeStream(w1, tid)
          IN CASE w2.res = "rejected" -> startStreamCatch(w2, origin)
               [] w2.res = "ok" -> startStreamResolve(w2, config, origin)
               [] OTHER ->
                    IF free = {} THEN Over(w2)
                    ELSE [w2 EXCEPT !.tasks = @ \cup {[id |-> tid, config |-> config,
                                                       origin |-> origin,
                                                       pc |-> "awaitStart"]}]

startStreamAlreadyRunningBroken(w, origin) ==
  AfterStart(Result(Emit(IncErrors(w), "error"), "rejected"), origin, FALSE)

\* startStream when the stream is already running
startStreamAlreadyRunning(w, origin) ==
  AfterStart(Result(w, "rejected"), origin, FALSE)

startStream(w, config, origin, rnd) ==
  IF w.sm.isStreaming THEN startStreamAlreadyRunning(w, origin)
  ELSE IF w.sm.ffmpegAvailable = "unknown" /\ ~w.sm.isBrowserEnvironment
  THEN LET free == (1..MaxTasks) \ {t.id : t \in w.tasks}
       IN IF free = {} THEN Over(w)
          ELSE Result([w EXCEPT !.tasks = @ \cup {[id |-> Min(free), config |-> config,
                                                   origin |-> origin, pc |-> "awaitFF"]}],
                      "pending")
  ELSE IF w.sm.ffmpegAvailable = "unknown"
  THEN startStreamNoFFmpeg([w EXCEPT !.sm.ffmpegAvailable = "no"], origin)
  ELSE IF w.sm.ffmpegAvailable = "no" THEN startStreamNoFFmpeg(w, origin)
  ELSE startStreamBody(w, config, origin, rnd)

stopStreamBodyBroken(w) ==
  LET w2 == IF w.sm.ffmpegProcess # 0
            THEN [kill(w, w.sm.ffmpegProcess) EXCEPT !.sm.ffmpegProcess = 0]
            ELSE w
      w3 == [w2 EXCEPT !.sm.uptimeInterval = FALSE,
                       !.sm.isStreaming = FALSE,
                       !.sm.status.isStreaming = FALSE,
                       !.sm.status.health = "offline",
                       !.sm.status.uptime = 0,
                       !.sm.status.streamType = "single",
                       !.sm.status.currentPlaylistItem = -1,
                       !.sm.status.playlistLength = -1,
                       !.sm.startTime = -1]
  IN Result(Emit(Emit(w3, "statusChange"), "log"), "ok")

\* stopStream when a stream is running
stopStreamBody(w) ==
  LET w1 == IF w.sm.config.streamType = "playlist" THEN pmStop(w) ELSE w
      w2 == IF w1.sm.ffmpegProcess # 0
            THEN [kill(w1, w1.sm.ffmpegProcess) EXCEPT !.sm.ffmpegProcess = 0]
            ELSE w1
      w3 == [w2 EXCEPT !.sm.uptimeInterval = FALSE,
                       !.sm.isStreaming = FALSE,
                       !.sm.status.isStreaming = FALSE,
                       !.sm.status.health = "offline",
                       !.sm.status.uptime = 0,
                       !.sm.status.streamType = "single",
                       !.sm.status.currentPlaylistItem = -1,
                       !.sm.status.playlistLength = -1,
                       !.sm.startTime = -1]
  IN Result(Emit(Emit(w3, "statusChange"), "log"), "ok")

stopStreamBroken(w) == stopStreamBody(w)

stopStreamResets(w) ==
  IF ~w.sm.isStreaming THEN Result(w, "rejected")
  ELSE [stopStreamBody(w) EXCEPT !.sm.status.errors = 0]

stopStream(w) ==
  IF ~w.sm.isStreaming THEN Result(w, "rejected") ELSE stopStreamBody(w)

restartStreamStartBroken(w, rnd) ==
  startStream(w, IF w.sm.config # NoConfig THEN w.sm.config ELSE SingleBase, "restart", rnd)

\* restartStream after the stop and the settle delay
restartStreamStart(w, rnd) ==
  IF w.sm.config # NoConfig THEN startStream(w, w.sm.config, "restart", rnd)
  ELSE Result(Emit(IncErrors(w), "error"), "rejected")

restartStream(w, rnd) ==
  IF w.sm.isStreaming
  THEN Result(AddTimer(stopStream(w), "settle", SettleDelay), "pending")
  ELSE restartStreamStart(w, rnd)

(***************************************************************************)
(* Event handlers of the encode processes                                  *)
(***************************************************************************)
SetProc(w, p, st) ==
  [w EXCEPT !.procs = (@ \ {p}) \cup {[p EXCEPT !.st = st, !.waiter = 0]}]

Task(w, id) == CHOOSE t \in w.tasks : t.id = id

DropTask(w, id) == [w EXCEPT !.tasks = {t \in @ : t.id # id}]

\* 'start': the promise of initializeStream / createLofiStream resolves
onStart(w, p) ==
  LET w1 == SetProc(w, p, "running")
  IN IF p.waiter > 0
     THEN LET t == Task(w, p.waiter)
          IN startStreamResolve(DropTask(w1, t.id), t.config, t.origin)
     ELSE w1

onErrorSingleBroken(w, p) ==
  LET w1 == Emit(IncErrors(SetProc(w, p, "dead")), "error")
      w2 == IF w1.sm.config # NoConfig /\ w1.sm.config.autoRestart
            THEN AddTimer(w1, "autoRestart", AutoRestartDelay)
            ELSE w1
  IN IF p.waiter > 0
     THEN startStreamCatch(DropTask(w2, p.waiter), Task(w, p.waiter).origin)
     ELSE w2

\* 'error' of a single-item pipeline
onErrorSingle(w, p) ==
  LET w1 == Emit(IncErrors(SetProc(w, p, "dead")), "error")
      w2 == IF w1.sm.config # NoConfig /\ w1.sm.config.autoRestart /\ w1.sm.isStreaming
            THEN AddTimer(w1, "autoRestart", AutoRestartDelay)
            ELSE w1
  IN IF p.waiter > 0
     THEN startStreamCatch(DropTask(w2, p.waiter), Task(w, p.waiter).origin)
     ELSE w2

\* 'error' of a playlist item's pipeline
onErrorLofi(w, p) ==
  LET w1 == SetProc(w, p, "dead")
  IN IF p.waiter = 0 THEN w1
     ELSE LET w2 == playCurrentItemCatch(w1)
          IN IF p.waiter > 0
             THEN LET t == Task(w, p.waiter)
                  IN startStreamResolve(DropTask(w2, t.id), t.config, t.origin)
             ELSE w2

\* 'end' of a single-item pipeline
onEndSingle(w, p) == Emit(SetProc(w, p, "dead"), "log")

\* 'end' of a playlist item's pipeline
onEndLofi(w, p) ==
  LET w1 == SetProc(w, p, "dead")
  IN IF w1.pm.isPlaying THEN nextItem(w1) ELSE w1

\* 'progress' of a single-item pipeline that reports frames
onProgress(w, p) == [w EXCEPT !.sm.status.health = "excellent"]

(***************************************************************************)
(* Initial state: the constructors of StreamManager and PlaylistManager    *)
(***************************************************************************)
InitStatus ==
  [isStreaming |-> FALSE, health |-> "offline", uptime |-> 0, bitrate |-> 0, fps |-> 0,
   resolution |-> "1280x720", errors |-> 0, lastRestart |-> -1, streamType |-> "single",
   currentPlaylistItem |-> -1, playlistLength |-> -1]

InitSM(browser) ==
  [ffmpegProcess |-> 0, isStreaming |-> FALSE, config |-> NoConfig,
   ffmpegAvailable |-> "unknown", isBrowserEnvironment |-> browser,
   status |-> InitStatus, startTime |-> -1, uptimeInterval |-> FALSE,
   leakedInterval |-> FALSE]

InitPM ==
  [currentPlaylist |-> 0, currentItemIndex |-> 0, isPlaying |-> FALSE, ffmpegProcess |-> 0,
   shuffleMode |-> FALSE, loopMode |-> TRUE, playOrder |-> << >>, backgroundVideo |-> "null"]

(***************************************************************************)
(* HealthMonitor                                                           *)
(***************************************************************************)
MaxAlerts == 4

MaxJobs == 2

MaxHealthErrors == 12

MaxRestarts == 1

AlertsKept == 100

ErrorPenalty == 5

RestartPenalty == 10

ExcellentFrom == 90

GoodFrom == 75

FairFrom == 50

PoorBelow == 50

ErrorAlertAbove == 10

\* the values of Math.random() * 10 - 5, rounded down; the base score is a
\* multiple of 5, so every outcome of the comparisons with the thresholds
\* is produced by one of these
RandomTerms == -5 .. 4

InitMetrics == [errors |-> 0, restarts |-> 0]

\* the error counts a caller of updateMetrics reports: none, one that keeps
\* the score above 50, one at each side of the alert threshold, the largest
ReportedErrors == {0, 8, ErrorAlertAbove, ErrorAlertAbove + 1, MaxHealthErrors}

\* status: the last status performHealthCheck emitted ("none" before the
\* first); healthJobs and analyticsJobs: the cron schedules that are active;
\* created: the number of createAlert calls so far
InitHM ==
  [isMonitoring |-> FALSE, cronJob |-> FALSE, healthJobs |-> 0, analyticsJobs |-> 0,
   metrics |-> InitMetrics, alerts |-> << >>, created |-> 0,
   status |-> [health |-> "none", healthScore |-> 100, metrics |-> InitMetrics]]

hmStart(h) ==
  IF h.isMonitoring THEN h
  ELSE [h EXCEPT !.isMonitoring = TRUE,
                 !.cronJob = TRUE,
                 !.healthJobs = @ + 1,
                 !.analyticsJobs = @ + 1]

hmStop(h) ==
  [h EXCEPT !.healthJobs = IF h.cronJob THEN @ - 1 ELSE @,
            !.cronJob = FALSE,
            !.isMonitoring = FALSE]

calculateHealthScore(h, rnd) ==
  LET score == 100 - h.metrics.errors * ErrorPenalty
                   - h.metrics.restarts * RestartPenalty + rnd
      capped == IF score > 100 THEN 100 ELSE score
  IN IF capped < 0 THEN 0 ELSE capped

createAlertBroken(h, type) ==
  LET pushed == Append(h.alerts, [type |-> type, seq |-> h.created + 1])
      n == Len(pushed)
  IN [h EXCEPT !.alerts = IF n > AlertsKept THEN SubSeq(pushed, 1, AlertsKept) ELSE pushed,
               !.created = @ + 1]

createAlert(h, type) ==
  LET pushed == Append(h.alerts, [type |-> type, seq |-> h.created + 1])
      n == Len(pushed)
  IN [h EXCEPT !.alerts = IF n > AlertsKept
                          THEN SubSeq(pushed, n - AlertsKept + 1, n) ELSE pushed,
               !.created = @ + 1]

checkAlerts(h, status) ==
  LET h1 == IF status.healthScore < PoorBelow THEN createAlert(h, "warning") ELSE h
  IN IF h1.metrics.errors > ErrorAlertAbove THEN createAlert(h1, "error") ELSE h1

performHealthCheck(h, rnd) ==
  LET healthScore == calculateHealthScore(h, rnd)
      health == IF healthScore >= ExcellentFrom THEN "excellent"
                ELSE IF healthScore >= GoodFrom THEN "good"
                ELSE IF healthScore >= FairFrom THEN "fair" ELSE "poor"
      status == [health |-> health, healthScore |-> healthScore, metrics |-> h.metrics]
  IN checkAlerts([h EXCEPT !.status = status], status)

updateMetrics(h, metrics) == [h EXCEPT !.metrics = metrics]

\* afterStop: the callback before this one was a stopStream that succeeded;
\* stopped: a stopStream request has succeeded and no startStream or
\* restartStream request has been issued since
NoCall ==
  [op |-> "init", res |-> "ok", config |-> NoConfig, afterStop |-> FALSE,
   stopped |-> FALSE]

Init ==
  /\ \E browser \in BOOLEAN : sm = InitSM(browser)
  /\ pm = InitPM
  /\ procs = {}
  /\ tasks = {}
  /\ timers = EmptyBag
  /\ out = << >>
  /\ last = NoCall
  /\ calls = 0
  /\ hm = InitHM

\* the random values a start with this configuration may consume
RandomFor(config) ==
  IF config # NoConfig /\ config.streamType = "playlist" /\ config.shuffle
     /\ getPlaylist(config.playlistId) # 0
  THEN RandomChoices(Len(DB[config.playlistId].items)) ELSE {<< >>}

\* the operations the control surface requests
Requests ==
  {"startStream", "stopStream", "restartStream", "setShuffle", "loadPlaylist",
   "nextItem", "previousItem"}

Commit(w, call) ==
  /\ ~w.over
  /\ LET c == Collect(w)
     IN /\ sm' = c.sm
        /\ pm' = c.pm
        /\ procs' = c.procs
        /\ tasks' = c.tasks
        /\ timers' = c.timers
        /\ out' = c.out
  /\ hm' = hm
  /\ last' = [call EXCEPT !.res = w.res,
                          !.afterStop = (last.op = "stopStream" /\ last.res = "ok"),
                          !.stopped =
                            IF call.op = "stopStream" /\ w.res = "ok" THEN TRUE
                            ELSE IF call.op \in {"startStream", "restartStream"} THEN FALSE
                            ELSE last.stopped]
  /\ calls' = IF call.op \in Requests THEN calls + 1 ELSE calls

Call(op) == [NoCall EXCEPT !.op = op]

(***************************************************************************)
(* Actions: requests of the control surface                                *)
(***************************************************************************)
StartStreamWith(C) ==
  /\ calls < MaxCalls
  /\ \E config \in C : \E rnd \in RandomFor(config) :
       Commit(startStream(World, config, "api", rnd),
              [Call("startStream") EXCEPT !.config = config])

StartSingle == StartStreamWith(SingleConfigs)

StartPlaylist == StartStreamWith(PlaylistConfigs)

StopStream ==
  /\ calls < MaxCalls
  /\ Commit(stopStream(World), Call("stopStream"))

RestartStream ==
  /\ calls < MaxCalls
  /\ \E rnd \in RandomFor(sm.config) :
       Commit(restartStream(World, rnd), Call("restartStream"))

SetShuffle ==
  /\ calls < MaxCalls
  /\ \E enabled \in BOOLEAN :
       \E rnd \in (IF enabled /\ pm.currentPlaylist # 0
                   THEN RandomChoices(Len(DB[pm.currentPlaylist].items)) ELSE {<< >>}) :
         Commit(setShuffle(World, enabled, rnd), Call("setShuffle"))

(***************************************************************************)
(* Actions: callbacks of the environment                                   *)
(***************************************************************************)
\* ffmpeg.getAvailableFormats calls back, or the 5 second timeout fires
FFmpegChecked ==
  \E t \in tasks : \E available \in BOOLEAN : \E rnd \in RandomFor(t.config) :
    /\ t.pc = "awaitFF"
    /\ LET w == DropTask(World, t.id)
       IN IF available
          THEN Commit(startStreamBody([w EXCEPT !.sm.ffmpegAvailable = "yes"],
                                      t.config, t.origin, rnd),
                      [Call("ffmpegChecked") EXCEPT !.config = t.config])
          ELSE Commit(startStreamNoFFmpeg([w EXCEPT !.sm.ffmpegAvailable = "no"], t.origin),
                      [Call("ffmpegChecked") EXCEPT !.config = t.config])

ProcStart ==
  \E p \in procs :
    /\ p.st = "starting"
    /\ Commit(onStart(World, p), Call("procStart"))

ProcError ==
  \E p \in procs :
    /\ p.st \in {"starting", "running", "killed"}
    /\ Commit(IF p.kind = "single" THEN onErrorSingle(World, p) ELSE onErrorLofi(World, p),
              Call("procError"))

ProcEnd ==
  \E p \in procs :
    /\ p.st \in {"running", "killed"}
    /\ p.waiter = 0
    /\ Commit(IF p.kind = "single" THEN onEndSingle(World, p) ELSE onEndLofi(World, p),
              Call("procEnd"))

\* a process that was killed after its 'start' may still report progress
\* before it exits
ProcProgress ==
  \E p \in procs :
    /\ p.st \in {"running", "killed"}
    /\ p.waiter = 0
    /\ p.kind = "single"
    /\ Commit(onProgress(World, p), Call("procProgress"))

(***************************************************************************)
(* Actions: timers                                                         *)
(***************************************************************************)
Due(kind) == [kind |-> kind, left |-> 0]

TakeTimer(w, kind) == [w EXCEPT !.timers = @ (-) SetToBag({Due(kind)})]

\* the 5 second timer of initializeStream's error handler
AutoRestartTimer ==
  /\ BagIn(Due("autoRestart"), timers)
  /\ \E rnd \in RandomFor(sm.config) :
       Commit(restartStream(TakeTimer(World, "autoRestart"), rnd), Call("autoRestartTimer"))

\* the 2 second settle delay of restartStream
SettleTimer ==
  /\ BagIn(Due("settle"), timers)
  /\ \E rnd \in RandomFor(sm.config) :
       Commit(restartStreamStart(TakeTimer(World, "settle"), rnd), Call("settleTimer"))

\* the 1 second timer of nextItem
AdvanceTimer ==
  /\ BagIn(Due("advance"), timers)
  /\ LET w == TakeTimer(World, "advance")
     IN Commit(IF w.pm.isPlaying THEN playCurrentItem(w, -1) ELSE w,
               Call("advanceTimer"))

\* the 2 second timer of playCurrentItem's catch block
RetryTimer ==
  /\ BagIn(Due("retry"), timers)
  /\ Commit(nextItem(TakeTimer(World, "retry")),
            Call("retryTimer"))

Older(n) == IF n < 0 THEN n ELSE IF n >= MaxUptime THEN MaxUptime ELSE n + 1

\* one second passes: every pending timer comes one second closer, and the
\* uptime intervals (setInterval, 1000 ms) fire
Tick ==
  /\ \A t \in BagToSet(timers) : t.left > 0
  /\ LET w == World
         ts == BagToSet(timers)
         elapsed == Older(sm.startTime)
         w1 == [w EXCEPT !.timers = [t \in {[x EXCEPT !.left = @ - 1] : x \in ts} |->
                                       timers[[t EXCEPT !.left = @ + 1]]],
                         !.sm.startTime = elapsed]
         w2 == IF (sm.uptimeInterval \/ sm.leakedInterval) /\ sm.startTime >= 0
               THEN Emit([w1 EXCEPT !.sm.status.uptime = elapsed], "statusChange")
               ELSE w1
     IN Commit(w2, Call("tick"))

\* the supervisor driven with single-item configurations
NextSingle ==
  \/ StartSingle
  \/ StopStream
  \/ RestartStream
  \/ FFmpegChecked
  \/ ProcStart
  \/ ProcError
  \/ ProcEnd
  \/ ProcProgress
  \/ AutoRestartTimer
  \/ SettleTimer
  \/ Tick

SpecSingle == Init /\ [][NextSingle]_vars

\* the supervisor driven with playlist configurations
NextPlaylist ==
  \/ StartPlaylist
  \/ StopStream
  \/ RestartStream
  \/ SetShuffle
  \/ FFmpegChecked
  \/ ProcStart
  \/ ProcError
  \/ ProcEnd
  \/ SettleTimer
  \/ AdvanceTimer
  \/ RetryTimer
  \/ Tick

SpecPlaylist == Init /\ [][NextPlaylist]_vars

(***************************************************************************)
(* The PlaylistManager on its own: playlists are loaded and the shuffle    *)
(* mode is toggled directly, for every playlist of the database.           *)
(***************************************************************************)
LoadPlaylist ==
  /\ calls < MaxCalls
  /\ \E id \in DOMAIN DB \cup {MissingPlaylistId} : \E shuffle \in BOOLEAN, loop \in BOOLEAN :
       \E rnd \in (IF shuffle /\ getPlaylist(id) # 0
                   THEN RandomChoices(Len(DB[id].items)) ELSE {<< >>}) :
         Commit(loadPlaylist(World, id, shuffle, loop, rnd), Call("loadPlaylist"))

NextShuffle ==
  \/ LoadPlaylist
  \/ SetShuffle

SpecShuffle == Init /\ [][NextShuffle]_vars

(***************************************************************************)
(* The supervisor driven with one single-item and one playlist             *)
(* configuration, so that the two modes follow each other.                 *)
(***************************************************************************)
MixedConfigs ==
  { [SingleBase EXCEPT !.autoRestart = TRUE],
    [PlaylistBase EXCEPT !.playlistId = 2] }

StartMixed == StartStreamWith(MixedConfigs)

NextMixed ==
  \/ StartMixed
  \/ StopStream
  \/ RestartStream
  \/ FFmpegChecked
  \/ ProcStart
  \/ ProcError
  \/ ProcEnd
  \/ ProcProgress
  \/ AutoRestartTimer
  \/ SettleTimer
  \/ AdvanceTimer
  \/ RetryTimer
  \/ Tick

SpecMixed == Init /\ [][NextMixed]_vars

(***************************************************************************)
(* The supervisor streaming a looping playlist while the sequencer's       *)
(* nextItem and previousItem are called from outside.                      *)
(***************************************************************************)
ManualConfigs ==
  { [PlaylistBase EXCEPT !.playlistId = 2],
    [PlaylistBase EXCEPT !.playlistId = MaxItems] }

StartManual == StartStreamWith(ManualConfigs)

NextItem ==
  /\ calls < MaxCalls
  /\ Commit(nextItem(World), Call("nextItem"))

PreviousItem ==
  /\ calls < MaxCalls
  /\ Commit(previousItem(World), Call("previousItem"))

NextManual ==
  \/ StartManual
  \/ NextItem
  \/ PreviousItem
  \/ StopStream
  \/ FFmpegChecked
  \/ ProcStart
  \/ ProcError
  \/ ProcEnd
  \/ AdvanceTimer
  \/ RetryTimer
  \/ Tick

SpecManual == Init /\ [][NextManual]_vars

(***************************************************************************)
(* The HealthMonitor: its cron callbacks and the calls of its interface.   *)
(***************************************************************************)
HmCommit(h, op, events) ==
  /\ hm' = h
  /\ out' = events
  /\ last' = [Call(op) EXCEPT !.stopped = last.stopped]
  /\ UNCHANGED <<sm, pm, procs, tasks, timers, calls>>

HealthStart ==
  /\ hm.isMonitoring \/ hm.analyticsJobs < MaxJobs
  /\ HmCommit(hmStart(hm), "healthStart", << >>)

HealthStop == HmCommit(hmStop(hm), "healthStop", << >>)

UpdateMetrics ==
  \E e \in ReportedErrors, r \in 0 .. MaxRestarts :
    HmCommit(updateMetrics(hm, [errors |-> e, restarts |-> r]), "updateMetrics", << >>)

HealthCheckUpTo(bound) ==
  /\ hm.healthJobs > 0
  /\ hm.created + 2 <= bound
  /\ \E rnd \in RandomTerms :
       LET h == performHealthCheck(hm, rnd)
       IN HmCommit(h, "healthCheck",
                   <<"statusUpdate">> \o [i \in 1 .. (h.created - hm.created) |-> "alert"])

PerformHealthCheck == HealthCheckUpTo(MaxAlerts)

GenerateAnalytics ==
  /\ hm.analyticsJobs > 0
  /\ HmCommit(hm, "analytics", <<"analytics">>)

NextHealth ==
  \/ HealthStart
  \/ HealthStop
  \/ UpdateMetrics
  \/ PerformHealthCheck
  \/ GenerateAnalytics

SpecHealth == Init /\ [][NextHealth]_vars

(***************************************************************************)
(* The messages of type 'status' the server broadcast in the last          *)
(* callback: one with the supervisor's status for each statusChange, one   *)
(* with the monitor's status for each statusUpdate.                        *)
(***************************************************************************)
StatusMessages ==
  {[type |-> "status", from |-> "streamManager", health |-> sm.status.health] :
     i \in {j \in DOMAIN out : out[j] = "statusChange"}}
  \cup
  {[type |-> "status", from |-> "healthMonitor", health |-> hm.status.health] :
     i \in {j \in DOMAIN out : out[j] = "statusUpdate"}}

(***************************************************************************)
(* The HealthMonitor over a long run: the metrics are reported once and    *)
(* the health checks go on until the alert buffer has overflowed.          *)
(***************************************************************************)
MaxCreated == 104

ReportOnce ==
  /\ hm.metrics = InitMetrics
  /\ \E e \in {ErrorAlertAbove, MaxHealthErrors} :
       HmCommit(updateMetrics(hm, [errors |-> e, restarts |-> 0]), "updateMetrics", << >>)

LongHealthCheck == HealthCheckUpTo(MaxCreated)

NextAlerts ==
  \/ HealthStart
  \/ ReportOnce
  \/ LongHealthCheck

SpecAlerts == Init /\ [][NextAlerts]_vars

(***************************************************************************)
(* Properties                                                              *)
(***************************************************************************)
Range(s) == {s[i] : i \in DOMAIN s}

AliveProcs == {p \in procs : Alive(p)}

\* the step runs startStream from "this.config = config" on: a request that
\* passes the two checks before it, or the continuation after the FFmpeg check
StartBodyRuns ==
  \/ last'.op = "startStream" /\ ~sm.isStreaming /\ sm.ffmpegAvailable = "yes"
  \/ last'.op = "ffmpegChecked" /\ sm'.ffmpegAvailable = "yes"

\* the step is the 'end' event of a playlist item's pipeline
LofiEnded ==
  /\ last'.op = "procEnd"
  /\ \E p \in procs : /\ p.kind = "lofi"
                      /\ p.st \in {"running", "killed"}
                      /\ \A q \in procs' : q.id = p.id => q.st = "dead"

\* C1: at most one encode process that was spawned and has neither been
\* killed nor exited exists at any instant.
C1_SingleActivePipeline == Cardinality(AliveProcs) <= 1

\* C2: startStream called while isStreaming is true is rejected and changes
\* nothing: status, configuration, handles, ticker, processes, pending
\* invocations and timers are as before, and nothing is emitted or spawned.
C2_StartWhileLiveRejected ==
  [][(last'.op = "startStream" /\ sm.isStreaming) =>
       /\ last'.res = "rejected"
       /\ sm' = sm
       /\ pm' = pm
       /\ procs' = procs
       /\ tasks' = tasks
       /\ timers' = timers
       /\ out' = << >>]_vars

C2_Witness ==
  /\ last.op = "startStream"
  /\ last.res = "rejected"
  /\ sm.isStreaming
  /\ sm.status.isStreaming

\* C3: a startStream issued while an earlier startStream is still suspended
\* (on the FFmpeg check or on the pipeline's 'start') is rejected, spawns no
\* process and leaves the pipeline handles alone.
C3_StartWhileStartingRejected ==
  [][(last'.op = "startStream" /\ tasks # {}) =>
       /\ last'.res = "rejected"
       /\ "spawn" \notin Range(out')
       /\ sm'.ffmpegProcess = sm.ffmpegProcess
       /\ pm'.ffmpegProcess = pm.ffmpegProcess]_vars

\* the configurations the validation-before-spawn property calls invalid
ClaimedInvalid(config) ==
  \/ config.key.len = 0
  \/ config.key.len <= 10
  \/ config.bitrate < 500 \/ config.bitrate > 10000
  \/ config.fps \notin {24, 30, 60}
  \/ config.quality \notin {"720p", "1080p"}

\* C4: for every configuration with an empty stream key, a key of length
\* <= 10, a bitrate outside [500,10000], an fps not in {24,30,60} or a
\* quality not in {720p,1080p}, startStream rejects and spawns no process.
C4_ValidationBeforeSpawn ==
  [][(StartBodyRuns /\ ClaimedInvalid(last'.config)) =>
       /\ last'.res = "rejected"
       /\ "spawn" \notin Range(out')
       /\ procs' = procs]_vars

\* C5: when startStream's validation fails, the stored configuration, the
\* streaming flag, the pipeline handle and the uptime ticker are as before
\* the call.
C5_FailedValidationChangesNothing ==
  [][(StartBodyRuns /\ validateConfig(last'.config) # "ok") =>
       /\ sm'.config = sm.config
       /\ sm'.isStreaming = sm.isStreaming
       /\ sm'.ffmpegProcess = sm.ffmpegProcess
       /\ sm'.uptimeInterval = sm.uptimeInterval]_vars

\* a playlist with no audio item, no background video, or an audio item
\* without an audio asset
Incomplete(playlist) ==
  \/ playlist.items = << >>
  \/ playlist.bg = "null"
  \/ \E i \in DOMAIN playlist.items : playlist.items[i] = "none"

\* C6: starting playlist mode with an incomplete playlist always fails, never
\* reaches playCurrentItem (no itemChanged, no spawn, no scheduled advance)
\* and leaves the supervisor offline.
C6_IncompletePlaylistRejected ==
  [][(/\ StartBodyRuns
      /\ ~sm.isStreaming
      /\ validateConfig(last'.config) = "ok"
      /\ last'.config.streamType = "playlist"
      /\ getPlaylist(last'.config.playlistId) # 0
      /\ Incomplete(DB[last'.config.playlistId])) =>
       /\ last'.res = "rejected"
       /\ "itemChanged" \notin Range(out')
       /\ "spawn" \notin Range(out')
       /\ timers' = timers
       /\ ~sm'.isStreaming
       /\ ~sm'.status.isStreaming]_vars

\* C7: whenever a playlist of N items is loaded, playOrder has length N and
\* holds each index 0..N-1 exactly once, for both shuffle modes and every
\* random choice; with shuffle off it is the identity order.
C7_PlayOrderIsPermutation ==
  pm.currentPlaylist # 0 =>
    LET n == Len(DB[pm.currentPlaylist].items)
    IN /\ Len(pm.playOrder) = n
       /\ {pm.playOrder[k] : k \in 1..n} = 0..(n - 1)
       /\ ~pm.shuffleMode => pm.playOrder = IdentityOrder(n)

C7_Witness ==
  /\ pm.currentPlaylist # 0
  /\ pm.shuffleMode
  /\ Len(pm.playOrder) = MaxItems
  /\ pm.playOrder # IdentityOrder(MaxItems)
  /\ pm.playOrder[1] # MaxItems - 1

\* the 1 second timer nextItem sets
AdvanceIn1 == [kind |-> "advance", left |-> AdvanceDelay]

\* C8: with loopMode set, when a playlist item ends (or the retry after an
\* item that could not be started fires) at the last cursor position while
\* the sequencer is playing, the cursor becomes 0, the sequencer stays
\* playing and the 1 second advance is scheduled; when that advance fires
\* at cursor 0 the item at cursor 0 is announced and played.
C8_LoopWraparound ==
  [][/\ (/\ LofiEnded \/ last'.op = "retryTimer"
         /\ pm.isPlaying
         /\ pm.loopMode
         /\ pm.currentItemIndex = Len(pm.playOrder) - 1) =>
          /\ pm'.currentItemIndex = 0
          /\ pm'.isPlaying
          /\ CopiesIn(AdvanceIn1, timers') = CopiesIn(AdvanceIn1, timers) + 1
     /\ (/\ last'.op = "advanceTimer"
         /\ pm.isPlaying
         /\ pm.currentItemIndex = 0
         /\ pm.backgroundVideo = "ok"
         /\ getCurrentItem(pm) # -1) =>
          /\ "itemChanged" \in Range(out')
          /\ sm'.status.currentPlaylistItem = pm.playOrder[1]
          /\ createLofiStreamCheck(pm, pm.playOrder[1]) = "ok" =>
               \E p \in procs' : /\ p.id = pm'.ffmpegProcess
                                 /\ p.st = "starting"
                                 /\ p.item = pm.playOrder[1]
                                 /\ p \notin procs]_vars

C8_Witness ==
  /\ last.op = "procEnd"
  /\ pm.loopMode
  /\ pm.isPlaying
  /\ Len(pm.playOrder) >= 2
  /\ pm.currentItemIndex = 0
  /\ BagIn(AdvanceIn1, timers)

\* C9: with loopMode off, when a playlist item ends at the last cursor
\* position the sequencer stops and the supervisor's status has
\* isStreaming = false.
C9_NonLoopEndStopsStream ==
  [][(/\ LofiEnded
      /\ pm.isPlaying
      /\ ~pm.loopMode
      /\ pm.currentItemIndex = Len(pm.playOrder) - 1) =>
       /\ ~pm'.isPlaying
       /\ ~sm'.status.isStreaming]_vars

\* C10 as stated: a stopStream right after a stopStream produces no error
\* and leaves the status as the first call left it.
C10_SecondStopSucceeds ==
  [][(last.op = "stopStream" /\ last'.op = "stopStream") =>
       /\ last'.res = "ok"
       /\ sm'.status = sm.status]_vars

\* C10 as amended: a stopStream right after a stopStream is rejected ("No
\* stream is currently running") and leaves the status, and all other state,
\* as the first call left it.
C10_SecondStopRejected ==
  [][(last.op = "stopStream" /\ last'.op = "stopStream") =>
       /\ last'.res = "rejected"
       /\ sm' = sm
       /\ pm' = pm
       /\ procs' = procs
       /\ tasks' = tasks
       /\ timers' = timers
       /\ out' = << >>]_vars

C10_Witness ==
  /\ last.op = "stopStream"
  /\ last.afterStop
  /\ last.res = "rejected"
  /\ ~sm.status.isStreaming
  /\ sm.status.health = "offline"

\* the callbacks that restartStream's error handler and the playlist
\* sequencer schedule with setTimeout
ScheduledCallbacks == {"autoRestartTimer", "advanceTimer", "retryTimer"}

\* C11: once a stopStream request has succeeded, and until the next
\* startStream or restartStream request, no auto-restart, advance or retry
\* callback spawns a process, starts a startStream invocation or sets
\* isStreaming.
C11_StopAlwaysWins ==
  [][(last.stopped /\ last'.op \in ScheduledCallbacks) =>
       /\ "spawn" \notin Range(out')
       /\ procs' \subseteq procs
       /\ tasks' = tasks
       /\ sm'.isStreaming = sm.isStreaming
       /\ sm'.status.isStreaming = sm.status.isStreaming]_vars

\* the auto-restart timers that are pending besides the one that is firing
OtherAutoRestarts ==
  BagToSet(timers (-) SetToBag({Due("autoRestart")}))
    \cap [kind : {"autoRestart"}, left : 0..AutoRestartDelay]

\* C12: when an automatic restart attempt is made (the 5 second timer of the
\* error handler fires), no other automatic restart attempt follows within
\* less than 5 seconds: no other auto-restart timer is pending that has
\* less than 5 seconds left.
C12_NoRestartStorm ==
  [][last'.op = "autoRestartTimer" =>
       \A t \in OtherAutoRestarts : t.left >= AutoRestartDelay]_vars

\* the step is the 'start' event of process p, on which a startStream
\* invocation is suspended
Confirms(p) ==
  /\ last'.op = "procStart"
  /\ p.st = "starting"
  /\ p.waiter > 0
  /\ [p EXCEPT !.st = "running", !.waiter = 0] \in procs'

\* C13: when the pipeline of a startStream with a valid single-mode
\* configuration reports 'start', the start succeeds and the status has
\* isStreaming = true, health "good", the configured bitrate and fps, and
\* the resolution "1280x720" for 720p and "1920x1080" for 1080p.
C13_SingleStreamGoesLive ==
  [][\A p \in procs :
       (/\ Confirms(p)
        /\ p.kind = "single"
        /\ validateConfig(Task(World, p.waiter).config) = "ok") =>
         LET config == Task(World, p.waiter).config
         IN /\ last'.res = "ok"
            /\ sm'.isStreaming
            /\ sm'.status.isStreaming
            /\ sm'.status.health = "good"
            /\ sm'.status.bitrate = config.bitrate
            /\ sm'.status.fps = config.fps
            /\ config.quality = "720p" => sm'.status.resolution = "1280x720"
            /\ config.quality = "1080p" => sm'.status.resolution = "1920x1080"]_vars

\* a start from offline has gone live with the 1080p configuration
C13_Witness ==
  /\ last.op = "procStart"
  /\ last.res = "ok"
  /\ sm.config \in ValidSingleConfigs
  /\ sm.config.quality = "1080p"
  /\ sm.status.isStreaming
  /\ sm.status.resolution = "1920x1080"
  /\ sm.status.bitrate = sm.config.bitrate
  /\ sm.status.fps = sm.config.fps
  /\ sm.status.uptime = 0
  /\ Cardinality(procs) = 1

\* the step is the 'end' event of the pipeline of the playlist's first item
FirstItemEnded ==
  /\ last'.op = "procEnd"
  /\ \E p \in procs : /\ p.kind = "lofi"
                      /\ p.item = 0
                      /\ p.st = "running"
                      /\ \A q \in procs' : q.id = p.id => q.st = "dead"

\* C14: without shuffle, when the pipeline of the first item of a playlist
\* of two or more items ends while the sequencer plays it, the cursor moves
\* to the second position and the 1 second advance is scheduled; when that
\* advance fires, status.currentPlaylistItem is the second item of the
\* playlist and status.playlistLength is the number of its items.
C14_PlaylistAdvance ==
  [][/\ (/\ FirstItemEnded
         /\ pm.isPlaying
         /\ ~pm.shuffleMode
         /\ pm.currentItemIndex = 0
         /\ Len(pm.playOrder) >= 2) =>
          /\ pm'.currentItemIndex = 1
          /\ pm'.isPlaying
          /\ CopiesIn(AdvanceIn1, timers') = CopiesIn(AdvanceIn1, timers) + 1
     /\ (/\ last'.op = "advanceTimer"
         /\ pm.isPlaying
         /\ ~pm.shuffleMode
         /\ pm.currentItemIndex = 1
         /\ pm.backgroundVideo = "ok") =>
          /\ sm'.status.currentPlaylistItem = 1
          /\ sm'.status.playlistLength = Len(DB[pm.currentPlaylist].items)
          /\ "itemChanged" \in Range(out')
          /\ "statusChange" \in Range(out')]_vars

\* the advance after the first item has announced the second item
C14_Witness ==
  /\ last.op = "advanceTimer"
  /\ ~pm.shuffleMode
  /\ pm.isPlaying
  /\ pm.currentItemIndex = 1
  /\ sm.isStreaming
  /\ sm.status.currentPlaylistItem = 1
  /\ sm.status.playlistLength = 2
  /\ \E p \in procs : p.id = pm.ffmpegProcess /\ p.item = 1 /\ p.st = "starting"

\* the step has an error outcome: a request is rejected, a restart attempt
\* fails, or an encode process reports 'error'
ErrorOutcome ==
  \/ last'.op \in {"startStream", "stopStream", "restartStream"} /\ last'.res = "rejected"
  \/ last'.op \in {"ffmpegChecked", "settleTimer", "autoRestartTimer"} /\ last'.res = "rejected"
  \/ last'.op = "procError"

\* C15: every error outcome increments the cumulative error counter and
\* emits at least one log or error event.
C15_NoErrorSwallowed ==
  [][ErrorOutcome =>
       /\ sm'.status.errors > sm.status.errors
       /\ \E e \in Range(out') : e \in {"log", "error"}]_vars

\* C16: isStreaming becomes true only in the 'start' event of an encode
\* process a startStream invocation is suspended on, and when such a
\* process reports 'error' instead, the invocation is rejected and the
\* stream is not made live.
C16_LiveOnlyOnConfirmation ==
  [][/\ (~sm.isStreaming /\ sm'.isStreaming) => \E p \in procs : Confirms(p)
     /\ \A p \in procs :
          (/\ last'.op = "procError"
           /\ p.st = "starting"
           /\ p.waiter > 0
           /\ \A q \in procs' : q.id = p.id => q.st = "dead") =>
            /\ last'.res = "rejected"
            /\ sm'.isStreaming = sm.isStreaming
            /\ sm'.status.isStreaming = sm.status.isStreaming]_vars

\* the step sends the kill signal to the process the handle id refers to,
\* if that process has not exited
Killed(id) ==
  \A p \in procs : (p.id = id /\ Alive(p)) => [p EXCEPT !.st = "killed"] \in procs'

C18_StopWhileStarting ==
  [][(/\ last'.op = "stopStream"
      /\ ~sm.isStreaming
      /\ \E t \in tasks : t.pc = "awaitStart") =>
       /\ last'.res = "ok"
       /\ \A p \in procs' : ~Alive(p)
       /\ tasks' = {}
       /\ ~sm'.isStreaming]_vars

\* the step is a restart attempt that reaches the test of the stored
\* configuration: a restartStream while not streaming, or the end of the
\* settle delay
RestartReachesStart ==
  \/ last'.op \in {"restartStream", "autoRestartTimer"} /\ ~sm.isStreaming
  \/ last'.op = "settleTimer"

\* C19: a restart attempt made while no configuration is stored is rejected,
\* spawns no process, starts no invocation and leaves the supervisor as
\* offline as it was; with a stored configuration, the attempt leaves the
\* stored configuration as it is, and the startStream invocation it starts
\* (it starts one when the stream is offline, FFmpeg is available and the
\* stored single-mode configuration is valid) runs, as a restart, with
\* exactly that configuration.
C19_RestartUsesStoredConfig ==
  [][RestartReachesStart =>
       /\ sm.config = NoConfig =>
            /\ last'.res = "rejected"
            /\ "spawn" \notin Range(out')
            /\ procs' \subseteq procs
            /\ tasks' = tasks
            /\ sm'.config = NoConfig
            /\ sm'.isStreaming = sm.isStreaming
            /\ sm'.status.isStreaming = sm.status.isStreaming
       /\ sm.config # NoConfig =>
            /\ sm'.config = sm.config
            /\ \A t \in tasks' \ tasks : t.config = sm.config /\ t.origin = "restart"
            /\ "spawn" \in Range(out') => validateConfig(sm.config) = "ok"
            /\ (validateConfig(sm.config) = "ok" /\ sm.ffmpegAvailable = "yes"
                /\ sm.config.streamType = "single" /\ ~sm.isStreaming) =>
                 \E t \in tasks' \ tasks : t.pc = "awaitStart"]_vars

\* a restart without a stored configuration has been rejected
C19_Witness ==
  /\ last.op = "restartStream"
  /\ last.res = "rejected"
  /\ sm.config = NoConfig
  /\ sm.status.errors = 1
  /\ ~sm.isStreaming
  /\ procs = {}

\* C20: every restart attempt that has run to its end, whether its start
\* succeeded or not, has set status.lastRestart to the time of the attempt.
C20_RestartAlwaysStamped ==
  [][(RestartReachesStart /\ last'.res # "pending") =>
       sm'.status.lastRestart = 0]_vars

\* C21: status.errors never decreases, in any step: a request, a process
\* event, a timer or a tick, stopStream included.
C21_ErrorsNeverDecrease ==
  [][sm'.status.errors >= sm.status.errors]_vars

\* a stream that had counted an error has been stopped
C21_Witness ==
  /\ last.op = "stopStream"
  /\ last.res = "ok"
  /\ sm.status.errors >= 1
  /\ ~sm.status.isStreaming

\* C22: status.uptime is 0 whenever status.isStreaming is false, and in a
\* step that begins and ends with status.isStreaming true the uptime does
\* not decrease.
C22_UptimeResetAndMonotonic ==
  /\ [](~sm.status.isStreaming => sm.status.uptime = 0)
  /\ [][(sm.status.isStreaming /\ sm'.status.isStreaming) =>
          sm'.status.uptime >= sm.status.uptime]_vars

\* the step is the 'error' event of process p
Failed(p) ==
  /\ last'.op = "procError"
  /\ p.st # "dead"
  /\ \A q \in procs' : q.id = p.id => q.st = "dead" /\ q.waiter = 0
  /\ \A q \in procs \ {p} : q \in procs' \/ q.st = "dead"

\* the 5 second timer the error handler sets
AutoRestartIn5 == [kind |-> "autoRestart", left |-> AutoRestartDelay]

\* C23: in single mode with autoRestart set and no stop requested, after
\* the 'error' event of a process that had not been killed (the process of
\* a restart attempt included) a restart attempt is pending: an
\* auto-restart timer or the settle delay of a restart is running.
C23_FailuresAreRetried ==
  [][\A p \in procs :
       (/\ Failed(p)
        /\ p.kind = "single"
        /\ Alive(p)
        /\ sm.config # NoConfig
        /\ sm.config.autoRestart
        /\ ~last.stopped) =>
         \E t \in BagToSet(timers') : t.kind \in {"autoRestart", "settle"}]_vars

\* the step runs startStream's body with the configuration now stored, and
\* validateConfig or the loading of the playlist rejects it
ConfigurationRejected ==
  /\ last'.op \in {"startStream", "ffmpegChecked", "settleTimer", "autoRestartTimer",
                    "restartStream"}
  /\ last'.res = "rejected"
  /\ ~sm.isStreaming
  /\ sm'.ffmpegAvailable = "yes"
  /\ sm'.config # NoConfig
  /\ \/ validateConfig(sm'.config) # "ok"
     \/ sm'.config.streamType = "playlist" /\ getPlaylist(sm'.config.playlistId) = 0

C25_AutoRestartIffFlagAndStreaming ==
  [][\A p \in procs :
       (Failed(p) /\ p.kind = "single") =>
         IF sm.config # NoConfig /\ sm.config.autoRestart /\ sm.isStreaming
         THEN timers' = timers (+) SetToBag({AutoRestartIn5})
         ELSE timers' = timers]_vars

\* an error on a live stream with autoRestart has set the timer
C25_Witness ==
  /\ last.op = "procError"
  /\ sm.isStreaming
  /\ sm.config # NoConfig
  /\ sm.config.autoRestart
  /\ BagIn(AutoRestartIn5, timers)
  /\ sm.status.errors = 1

\* the step is the 'end' event of process p
Ended(p) ==
  /\ last'.op = "procEnd"
  /\ p.st # "dead"
  /\ \A q \in procs' : q.id = p.id => q.st = "dead"
  /\ \A q \in procs \ {p} : q \in procs' \/ q.st = "dead"

\* the 2 second timer playCurrentItem's catch block sets
RetryIn2 == [kind |-> "retry", left |-> RetryDelay]

\* the step sets one more timer like t
Scheduled(t) == CopiesIn(t, timers') = CopiesIn(t, timers) + 1

\* C26: when the pipeline of the sequencer's current item ends or reports
\* 'error', before or after its 'start', while the sequencer is playing,
\* then either the playlist has finished in non-loop mode and the sequencer
\* stops, or the cursor has advanced by one (to 0 after the last position)
\* and the 1 second advance is set, or the 2 second retry that will advance
\* the cursor is set.
C26_EndOrErrorAdvances ==
  [][\A p \in procs :
       (/\ Ended(p) \/ Failed(p)
        /\ p.kind = "lofi"
        /\ Alive(p)
        /\ p.id = pm.ffmpegProcess
        /\ pm.isPlaying) =>
         LET n == Len(pm.playOrder)
             atEnd == pm.currentItemIndex + 1 >= n
         IN \/ atEnd /\ ~pm.loopMode /\ ~pm'.isPlaying
            \/ /\ pm'.currentItemIndex = (IF atEnd THEN 0 ELSE pm.currentItemIndex + 1)
               /\ pm'.isPlaying
               /\ Scheduled(AdvanceIn1)
            \/ /\ pm'.currentItemIndex = pm.currentItemIndex
               /\ pm'.isPlaying
               /\ Scheduled(RetryIn2)]_vars

\* the positions of event e in what the step emits
Positions(e) == {i \in DOMAIN out' : out'[i] = e}

\* C27: in every step that spawns the encode process of a playlist item,
\* itemChanged is emitted before the spawn, and the item and the total it
\* carries, which the supervisor stores in its status, are the item of the
\* new process and the number of items of the playlist.
C27_ItemChangedBeforeSpawn ==
  [][\A j \in Positions("spawn") :
       \A p \in procs' \ procs :
         p.kind = "lofi" =>
           /\ \E i \in Positions("itemChanged") : i < j
           /\ p.st = "starting"
           /\ p.item = getCurrentItem(pm')
           /\ sm'.status.currentPlaylistItem = p.item
           /\ sm'.status.playlistLength = Len(DB[pm'.currentPlaylist].items)]_vars

\* the advance to the second item has announced it and spawned its process
C27_Witness ==
  /\ last.op = "advanceTimer"
  /\ out = <<"itemChanged", "statusChange", "playlistUpdate", "spawn">>
  /\ pm.currentItemIndex = 1
  /\ sm.status.currentPlaylistItem = getCurrentItem(pm)
  /\ \E p \in procs : p.id = pm.ffmpegProcess /\ p.st = "starting"
                      /\ p.item = sm.status.currentPlaylistItem

\* C28: a nextItem or previousItem call while the sequencer is playing
\* moves the cursor by one, from the last position to 0 for next and from 0
\* to the last position for previous, kills the process of the sequencer's
\* handle, keeps the sequencer playing and sets the 1 second timer that
\* plays the item at the new cursor; and when that timer has spawned the
\* item's process, it is the only process that runs.
C28_ManualMoveReplacesPipeline ==
  [][LET n == Len(pm.playOrder)
     IN /\ (last'.op = "nextItem" /\ pm.isPlaying) =>
             /\ pm'.currentItemIndex =
                  (IF pm.currentItemIndex + 1 >= n THEN 0 ELSE pm.currentItemIndex + 1)
             /\ Killed(pm.ffmpegProcess)
             /\ pm'.isPlaying
             /\ Scheduled(AdvanceIn1)
        /\ (last'.op = "previousItem" /\ pm.isPlaying) =>
             /\ pm'.currentItemIndex =
                  (IF pm.currentItemIndex - 1 < 0 THEN n - 1 ELSE pm.currentItemIndex - 1)
             /\ Killed(pm.ffmpegProcess)
             /\ pm'.isPlaying
             /\ Scheduled(AdvanceIn1)
        /\ (last'.op = "advanceTimer" /\ "spawn" \in Range(out')) =>
             Cardinality({p \in procs' : Alive(p)}) = 1]_vars

\* C29: a setShuffle call stores the flag and regenerates the play order at
\* once (a permutation of the playlist's positions, the identity when the
\* flag is off, nothing when no playlist is loaded); the cursor index, the
\* playing flag, the loop flag, the sequencer's process handle, the
\* processes, the timers and the supervisor are left as they were.
C29_SetShuffleKeepsPlayback ==
  [][last'.op = "setShuffle" =>
       /\ pm'.currentItemIndex = pm.currentItemIndex
       /\ pm'.isPlaying = pm.isPlaying
       /\ pm'.loopMode = pm.loopMode
       /\ pm'.ffmpegProcess = pm.ffmpegProcess
       /\ pm'.currentPlaylist = pm.currentPlaylist
       /\ AliveProcs' = AliveProcs
       /\ timers' = timers
       /\ tasks' = tasks
       /\ sm' = sm
       /\ IF pm.currentPlaylist = 0
          THEN pm'.playOrder = pm.playOrder
          ELSE LET ident == IdentityOrder(Len(DB[pm.currentPlaylist].items))
               IN /\ Len(pm'.playOrder) = Len(ident)
                  /\ Range(pm'.playOrder) = Range(ident)
                  /\ ~pm'.shuffleMode => pm'.playOrder = ident]_vars

C29_Witness ==
  /\ last.op = "setShuffle"
  /\ pm.shuffleMode
  /\ pm.isPlaying
  /\ pm.currentItemIndex = 1
  /\ pm.playOrder # IdentityOrder(Len(pm.playOrder))
  /\ \E p \in procs : /\ p.id = pm.ffmpegProcess
                      /\ p.st = "running"
                      /\ p.item # getCurrentItem(pm)

\* C30: when two health checks follow each other with the metrics unchanged
\* in between, and the score is below 50 at both, the second check creates
\* no "warning" alert; when the error count is above 10 at both, the second
\* check creates no "error" alert.
NewAlerts(type) ==
  {i \in DOMAIN hm'.alerts : hm'.alerts[i].seq > hm.created /\ hm'.alerts[i].type = type}

C30_OneAlertPerBreach ==
  [][(/\ last'.op = "healthCheck"
      /\ hm.status.health # "none"
      /\ hm.status.metrics = hm.metrics) =>
       /\ (hm.status.healthScore < PoorBelow /\ hm'.status.healthScore < PoorBelow)
            => NewAlerts("warning") = {}
       /\ (hm.status.metrics.errors > ErrorAlertAbove /\ hm'.metrics.errors > ErrorAlertAbove)
            => NewAlerts("error") = {}]_vars

\* C31: the alerts list never holds more than 100 alerts, and it holds
\* exactly the most recently created ones (all of them while fewer than 100
\* were created) in the order of their creation.
C31_AlertsAreTheLatest ==
  LET n == Len(hm.alerts)
  IN /\ n <= AlertsKept
     /\ n = (IF hm.created < AlertsKept THEN hm.created ELSE AlertsKept)
     /\ \A i \in 1 .. n : hm.alerts[i].seq = hm.created - n + i

C31_Witness ==
  /\ hm.created > AlertsKept + 1
  /\ Len(hm.alerts) = AlertsKept
  /\ hm.alerts[1].seq = hm.created - AlertsKept + 1
  /\ hm.alerts[AlertsKept].seq = hm.created
  /\ hm.alerts[AlertsKept].type = "error"
  /\ hm.alerts[AlertsKept - 1].type = "warning"

\* C32: whenever the status says streaming and no startStream or
\* restartStream call is in progress (no start is suspended and no restart
\* waits for its settle delay), an encode process is alive or an
\* auto-restart, advance or retry callback is pending.
C32_LiveHasPipelineOrRecovery ==
  (/\ sm.status.isStreaming
   /\ tasks = {}
   /\ \A t \in BagToSet(timers) : t.kind # "settle")
    => \/ AliveProcs # {}
       \/ \E t \in BagToSet(timers) : t.kind \in {"autoRestart", "advance", "retry"}

\* C33: in every state the status' health is "offline" exactly when the
\* status says not streaming.
C33_OfflineIffNotStreaming ==
  (sm.status.health = "offline") <=> ~sm.status.isStreaming

\* C34: while a stream is live, an 'error' or 'end' event of a process that
\* was killed (the processes that are alive stay as they are), or a
\* 'progress' event when no process is running, schedules no callback,
\* leaves the sequencer's cursor where it is and leaves the health as it is.
C34_StaleEventsAreIgnored ==
  [][(/\ sm.isStreaming
      /\ \/ last'.op \in {"procError", "procEnd"} /\ AliveProcs' = AliveProcs
         \/ last'.op = "procProgress" /\ \A p \in procs : p.st # "running") =>
       /\ timers' = timers
       /\ pm'.currentItemIndex = pm.currentItemIndex
       /\ sm'.status.health = sm.status.health]_vars

\* C35: when a stopStream has succeeded, the next callback was a startStream
\* that began a new playlist run, and the callback after that is an advance
\* or retry timer (which was set before the stop, since the timers set by
\* the start are not yet due), the timer's callback leaves the cursor where
\* it is and spawns no process.
C35_StaleTimersAreIgnored ==
  [][(/\ last.op = "startStream"
      /\ last.afterStop
      /\ pm.isPlaying
      /\ last'.op \in {"advanceTimer", "retryTimer"}) =>
       /\ pm'.currentItemIndex = pm.currentItemIndex
       /\ "spawn" \notin Range(out')]_vars

\* C36: whenever a playlist with at least one item is loaded, the cursor is
\* a position of the play order, so getCurrentItem returns an item.
C36_CursorInRange ==
  (pm.currentPlaylist # 0 /\ Len(DB[pm.currentPlaylist].items) > 0) =>
    /\ 0 <= pm.currentItemIndex
    /\ pm.currentItemIndex < Len(pm.playOrder)
    /\ getCurrentItem(pm) # -1

\* C37: no callback, which observes one failure at most (one failed start,
\* one pipeline error event or one failed restart), increases status.errors
\* by more than 1.
C37_FailuresCountedOnce ==
  [][sm'.status.errors <= sm.status.errors + 1]_vars

\* C38: a health-check or analytics callback runs only while the monitor is
\* monitoring (after stop() none runs), and after every call at most one
\* health-check schedule and at most one analytics schedule are active.
C38_StartStopControlSchedules ==
  [][/\ last'.op \in {"healthCheck", "analytics"} => hm.isMonitoring
     /\ hm'.healthJobs <= 1
     /\ hm'.analyticsJobs <= 1]_vars

\* C39: every 'status' message broadcast to the clients carries the health
\* of the supervisor's status, and so the health "offline" while the
\* supervisor is not streaming.
C39_StatusMessagesAreTheSupervisors ==
  \A m \in StatusMessages :
    /\ m.health = sm.status.health
    /\ ~sm.status.isStreaming => m.health = "offline"

====
